---- MODULE Spec2Model ----
(***************************************************************************)
(* dbus_next/service.py: the member descriptors (_Method, _Signal,         *)
(* _Property), the registration done by ServiceInterface.__init__, and     *)
(* the dispatch of signals and PropertiesChanged to the attached buses.    *)
(***************************************************************************)
EXTENDS Integers, Sequences, FiniteSets, TLC

(***************************************************************************)
(* Bounds                                                                  *)
(***************************************************************************)
\* number of transports (message buses) that may be attached
NumBuses == 2
\* longest list a signal's trigger function returns
MaxListLen == 3

(***************************************************************************)
(* Python values                                                           *)
(***************************************************************************)
PyNone == [tag |-> "None", s |-> "", items |-> <<>>]
PyStr(v) == [tag |-> "str", s |-> v, items |-> <<>>]
PyList(xs) == [tag |-> "list", s |-> "", items |-> xs]

\* None where an object reference is expected
None == <<0, "None">>
\* inspect.Signature.empty
Empty == <<"<empty>">>
\* the name option left at its default (None)
NoName == "<None>"

(***************************************************************************)
(* Signatures: a signature string is a sequence of characters; the complete*)
(* types are "s", "u" and arrays "a" + complete type.                      *)
(***************************************************************************)
RECURSIVE CompleteTypeLen(_)
\* length of the first complete type of sig, 0 when there is none
CompleteTypeLen(sig) ==
    IF sig = <<>> THEN 0
    ELSE IF Head(sig) = "a"
         THEN LET k == CompleteTypeLen(Tail(sig)) IN IF k = 0 THEN 0 ELSE k + 1
         ELSE IF Head(sig) \in {"s", "u"} THEN 1 ELSE 0

RECURSIVE WellFormed(_)
WellFormed(sig) ==
    \/ sig = <<>>
    \/ /\ CompleteTypeLen(sig) > 0
       /\ WellFormed(SubSeq(sig, CompleteTypeLen(sig) + 1, Len(sig)))

RECURSIVE SignatureTree_types(_)
\* SignatureTree(sig).types for a well-formed sig
SignatureTree_types(sig) ==
    IF sig = <<>> \/ CompleteTypeLen(sig) = 0 THEN <<>>
    ELSE LET k == CompleteTypeLen(sig)
         IN  <<SubSeq(sig, 1, k)>> \o SignatureTree_types(SubSeq(sig, k + 1, Len(sig)))

\* Variant(signature, value)
Variant(signature, value) == [signature |-> signature, value |-> value]

\* PropertyAccess.writable()
writable(access) == access \in {"write", "readwrite"}

(***************************************************************************)
(* The class namespace.  Attribute names in the order inspect.getmembers   *)
(* returns them (sorted by name); emit_properties_changed and introspect   *)
(* are inherited from ServiceInterface, the others are the user's.         *)
(***************************************************************************)
AttrNames == <<"bar", "emit_properties_changed", "foo", "introspect", "quux">>
NAttr == Len(AttrNames)
Inherited == {2, 4}
UserAttrs == (1..NAttr) \ Inherited

\* identities of the objects a class body creates: the object made by the
\* getter declaration, the setter declaration or the method/signal
\* declaration written under attribute a
OIDs == (1..NAttr) \X {"get", "set", "fn"}
\* identities of the functions: the def under attribute a in that role
FnId(a, role) == <<a, role>>

NoObj == [cls |-> "none"]
NoMember == [kind |-> "none", oid |-> None]
OtherMember == [kind |-> "other", oid |-> None]

\* a Python function as inspect.signature sees it: params holds the
\* annotation of every parameter, the receiver first
Fn(id, fname, params, ret) == [id |-> id, name |-> fname, params |-> params, ret |-> ret]

Ok(v) == [ok |-> TRUE, err |-> "", v |-> v]
Raise(e) == [ok |-> FALSE, err |-> e, v |-> NoObj]

\* the None a prop_setter starts as
NoFn == Fn(None, "", <<>>, Empty)

\* obj with the attributes of upd assigned
SetAttrs(obj, upd) ==
    [k \in DOMAIN obj \cup DOMAIN upd |-> IF k \in DOMAIN upd THEN upd[k] ELSE obj[k]]

(***************************************************************************)
(* _Method                                                                 *)
(***************************************************************************)
\* intr.Arg(type, direction, name)
Arg(type, direction, name) == [type |-> type, direction |-> direction, name |-> name]

RECURSIVE Concat(_)
Concat(seqs) == IF seqs = <<>> THEN <<>> ELSE Head(seqs) \o Concat(Tail(seqs))

\* the OUT args of a return annotation (lines 40-43, 115-122)
OutArgs(ret) ==
    IF ret = Empty THEN <<>>
    ELSE [i \in 1..Len(SignatureTree_types(ret)) |->
             Arg(SignatureTree_types(ret)[i], "out", 0)]

\* _Method.__init__ putting each annotation in front of in_signature
_Method__init__prepend(fn, name, disabled) ==
    LET nonself == SubSeq(fn.params, 2, Len(fn.params))
        in_args == [i \in 1..Len(nonself) |-> Arg(nonself[i], "in", i)]
        in_signature == Concat([i \in 1..Len(nonself) |-> nonself[Len(nonself) + 1 - i]])
        out_signature == IF fn.ret = Empty THEN <<>> ELSE fn.ret
    IN  IF \E i \in 1..Len(nonself) : nonself[i] = Empty
        THEN Raise("ValueError")
        ELSE IF ~WellFormed(out_signature) \/ ~WellFormed(in_signature)
        THEN Raise("SignatureError")
        ELSE Ok([cls |-> "method",
                 name |-> name,
                 fn |-> fn,
                 disabled |-> disabled,
                 introspection |-> [name |-> name, in_args |-> in_args,
                                    out_args |-> OutArgs(fn.ret)],
                 in_signature |-> in_signature,
                 out_signature |-> out_signature,
                 in_signature_tree |-> SignatureTree_types(in_signature),
                 out_signature_tree |-> SignatureTree_types(out_signature)])

\* lines 21-52
_Method__init__(fn, name, disabled) ==
    LET nonself == SubSeq(fn.params, 2, Len(fn.params))
        in_args == [i \in 1..Len(nonself) |-> Arg(nonself[i], "in", i)]
        in_signature == Concat(nonself)
        out_signature == IF fn.ret = Empty THEN <<>> ELSE fn.ret
    IN  IF \E i \in 1..Len(nonself) : nonself[i] = Empty
        THEN Raise("ValueError")
        ELSE IF ~WellFormed(out_signature) \/ ~WellFormed(in_signature)
        THEN Raise("SignatureError")
        ELSE Ok([cls |-> "method",
                 name |-> name,
                 fn |-> fn,
                 disabled |-> disabled,
                 introspection |-> [name |-> name, in_args |-> in_args,
                                    out_args |-> OutArgs(fn.ret)],
                 in_signature |-> in_signature,
                 out_signature |-> out_signature,
                 in_signature_tree |-> SignatureTree_types(in_signature),
                 out_signature_tree |-> SignatureTree_types(out_signature)])

\* the decorator method(name, disabled) applied to fn
method(name, disabled, fn) ==
    _Method__init__(fn, IF name # NoName THEN name ELSE fn.name, disabled)

(***************************************************************************)
(* _Signal                                                                 *)
(***************************************************************************)
_Signal__init__(fn, name, disabled) ==
    LET signature == IF fn.ret = Empty THEN <<>> ELSE fn.ret
    IN  IF ~WellFormed(signature)
        THEN Raise("SignatureError")
        ELSE Ok([cls |-> "signal",
                 signature |-> signature,
                 signature_tree |-> SignatureTree_types(signature),
                 name |-> name,
                 disabled |-> disabled,
                 introspection |-> [name |-> name, args |-> OutArgs(fn.ret)]])

\* the decorator signal(name, disabled) applied to fn
signal(name, disabled, fn) ==
    _Signal__init__(fn, IF name # NoName THEN name ELSE fn.name, disabled)

(***************************************************************************)
(* _Property                                                               *)
(***************************************************************************)
\* options is a dict: a function from some of "name", "access", "disabled"
NoOptions == [k \in {} |-> NoName]

set_options(self, options) ==
    LET old == IF "options" \in DOMAIN self THEN self.options ELSE NoOptions
        merged == SetAttrs(old, options)
        name == IF "name" \in DOMAIN options /\ options["name"] # NoName
                THEN options["name"] ELSE self.prop_getter.name
        access == IF "access" \in DOMAIN options THEN options["access"] ELSE "readwrite"
        disabled == IF "disabled" \in DOMAIN options THEN options["disabled"] ELSE FALSE
    IN  SetAttrs(self, [options |-> merged,
                        name |-> name,
                        access |-> access,
                        disabled |-> disabled,
                        introspection |-> [name |-> name,
                                           signature |-> self.signature,
                                           access |-> access]])

\* _Property(fn, fset, options=options); hasOptions tells whether the
\* options keyword was passed
_Property__init__(fn, fset, hasOptions, options) ==
    LET self == [cls |-> "prop", prop_getter |-> fn, prop_setter |-> NoFn,
                 fget |-> fn, fset |-> fset,
                 signature |-> fn.ret,
                 type |-> SignatureTree_types(fn.ret)[1]]
    IN  IF Len(fn.params) # 1 THEN Raise("ValueError")
        ELSE IF fn.ret = Empty THEN Raise("ValueError")
        ELSE IF ~WellFormed(fn.ret) THEN Raise("SignatureError")
        ELSE IF Len(SignatureTree_types(fn.ret)) # 1 THEN Raise("ValueError")
        ELSE IF hasOptions THEN Ok(set_options(self, options))
        ELSE Ok(self)

\* setter without the options put back on the new object
setter_noOptions(self, fn) ==
    LET result == _Property__init__(self.fget, fn, FALSE, NoOptions).v
    IN  set_options(SetAttrs(result, [prop_setter |-> fn]), NoOptions)

\* _Property.setter: property.setter builds a new object of the same type
\* from (fget, fn), then the setter and the options are put on it
setter(self, fn) ==
    LET result == _Property__init__(self.fget, fn, FALSE, NoOptions).v
    IN  set_options(SetAttrs(result, [prop_setter |-> fn]), self.options)

\* the decorator dbus_property(access, name, disabled) applied to fn
dbus_property(access, name, disabled, fn) ==
    _Property__init__(fn, NoFn, TRUE,
                      [name |-> name, access |-> access, disabled |-> disabled])

(***************************************************************************)
(* The class body: each decorated def binds an attribute of the class.     *)
(* A class state is [members, heap]: the namespace and the objects.        *)
(***************************************************************************)
Range(f) == {f[x] : x \in DOMAIN f}

Bind(c, a, kind, role, obj) ==
    [ok |-> TRUE, err |-> "",
     members |-> [c.members EXCEPT ![a] = [kind |-> kind, oid |-> <<a, role>>]],
     heap |-> [c.heap EXCEPT ![<<a, role>>] = obj]]
Fail(c, e) == [ok |-> FALSE, err |-> e, members |-> c.members, heap |-> c.heap]

\* @dbus_property(access, name, disabled)  def <a>(<params>) -> <ret>
DeclProperty(c, a, params, ret, access, name, disabled) ==
    LET r == dbus_property(access, name, disabled,
                           Fn(FnId(a, "get"), AttrNames[a], params, ret))
    IN  IF r.ok THEN Bind(c, a, "prop", "get", r.v) ELSE Fail(c, r.err)

\* the setter put on the getter's own descriptor, which a is then bound to
DeclSetter_inPlace(c, src, a) ==
    LET p == c.heap[c.members[src].oid]
        fn == Fn(FnId(a, "set"), AttrNames[a], <<Empty, p.signature>>, Empty)
    IN  [ok |-> TRUE, err |-> "",
         members |-> [c.members EXCEPT ![a] = c.members[src]],
         heap |-> [c.heap EXCEPT ![c.members[src].oid] =
                       SetAttrs(p, [prop_setter |-> fn, fset |-> fn])]]

\* @<src>.setter  def <a>(self, val: <sig>)
DeclSetter(c, src, a) ==
    LET p == c.heap[c.members[src].oid]
    IN  Bind(c, a, "prop", "set",
             setter(p, Fn(FnId(a, "set"), AttrNames[a], <<Empty, p.signature>>, Empty)))

\* @method(name, disabled)  def <a>(<params>) -> <ret>
DeclMethod(c, a, params, ret, name, disabled) ==
    LET r == method(name, disabled, Fn(FnId(a, "fn"), AttrNames[a], params, ret))
    IN  IF r.ok THEN Bind(c, a, "method", "fn", r.v) ELSE Fail(c, r.err)

\* @signal(name, disabled)  def <a>(self, ...) -> <ret>
DeclSignal(c, a, ret, name, disabled) ==
    LET r == signal(name, disabled, Fn(FnId(a, "fn"), AttrNames[a], <<Empty>>, ret))
    IN  IF r.ok THEN Bind(c, a, "signal", "fn", r.v) ELSE Fail(c, r.err)

\* the class before its body runs: what ServiceInterface itself defines
EmptyClass ==
    [members |-> [a \in 1..NAttr |-> IF a \in Inherited THEN OtherMember ELSE NoMember],
     heap |-> [o \in OIDs |-> NoObj]]

(***************************************************************************)
(* ServiceInterface.__init__                                               *)
(***************************************************************************)
\* the merge matching a member only with a collected property that has no
\* setter yet
MergeProperty_unsetOnly(acc, oid) ==
    LET member == acc.heap[oid]
        same(o) == /\ acc.heap[o].prop_getter.id = member.prop_getter.id
                   /\ acc.heap[o].prop_setter.id = None
        found == \E j \in 1..Len(acc.properties) : same(acc.properties[j])
    IN  [acc EXCEPT
           !.heap = [o \in OIDs |->
                       IF /\ o \in Range(acc.properties)
                          /\ same(o)
                          /\ member.prop_setter.id # None
                       THEN SetAttrs(acc.heap[o], [prop_setter |-> member.prop_setter])
                       ELSE acc.heap[o]],
           !.properties = IF found THEN @ ELSE Append(@, oid)]

\* lines 335-343: merge member into the collected properties
MergeProperty(acc, oid) ==
    LET member == acc.heap[oid]
        same(o) == acc.heap[o].prop_getter.id = member.prop_getter.id
        found == \E j \in 1..Len(acc.properties) : same(acc.properties[j])
    IN  [acc EXCEPT
           !.heap = [o \in OIDs |->
                       IF /\ o \in Range(acc.properties)
                          /\ same(o)
                          /\ member.prop_setter.id # None
                       THEN SetAttrs(acc.heap[o], [prop_setter |-> member.prop_setter])
                       ELSE acc.heap[o]],
           !.properties = IF found THEN @ ELSE Append(@, oid)]

RECURSIVE Collect(_, _, _)
\* lines 328-351 from the i-th member of inspect.getmembers on
Collect(mem, i, acc) ==
    IF i > NAttr THEN acc
    ELSE IF mem[i].kind = "prop"
         THEN Collect(mem, i + 1, MergeProperty(acc, mem[i].oid))
    ELSE IF mem[i].kind = "method"
         THEN Collect(mem, i + 1, [acc EXCEPT !.methods = Append(@, mem[i].oid)])
    ELSE IF mem[i].kind = "signal"
         THEN Collect(mem, i + 1, [acc EXCEPT !.signals = Append(@, mem[i].oid)])
    ELSE Collect(mem, i + 1, acc)

\* the member variable after the loop: the last one enumerated
LastMember(mem) ==
    mem[CHOOSE i \in 1..NAttr :
            /\ mem[i].kind # "none"
            /\ \A j \in (i + 1)..NAttr : mem[j].kind = "none"]

\* Validate looking at the first collected property only
Validate_firstOnly(mem, acc) ==
    IF /\ acc.properties # <<>>
       /\ writable(acc.heap[acc.properties[1]].access)
       /\ acc.heap[acc.properties[1]].prop_setter.id = None
    THEN IF LastMember(mem).kind = "prop"
         THEN [err |-> "ValueError", errName |-> acc.heap[LastMember(mem).oid].name]
         ELSE [err |-> "AttributeError", errName |-> ""]
    ELSE [err |-> "", errName |-> ""]

\* lines 353-356
Validate(mem, acc) ==
    IF \E j \in 1..Len(acc.properties) :
          /\ writable(acc.heap[acc.properties[j]].access)
          /\ acc.heap[acc.properties[j]].prop_setter.id = None
    THEN IF LastMember(mem).kind = "prop"
         THEN [err |-> "ValueError", errName |-> acc.heap[LastMember(mem).oid].name]
         ELSE [err |-> "AttributeError", errName |-> ""]
    ELSE [err |-> "", errName |-> ""]

\* the whole constructor on class state c
ServiceInterface__init__(c) ==
    LET acc == Collect(c.members, 1,
                       [heap |-> c.heap, methods |-> <<>>,
                        properties |-> <<>>, signals |-> <<>>])
        v == Validate(c.members, acc)
    IN  [ok |-> v.err = "", err |-> v.err, errName |-> v.errName,
         heap |-> acc.heap, methods |-> acc.methods,
         properties |-> acc.properties, signals |-> acc.signals]

(***************************************************************************)
(* Dispatch helpers                                                        *)
(***************************************************************************)
\* _fn_result_to_body taking a list as the body also when one OUT arg is declared
_fn_result_to_body_unwrap(result, signature_tree) ==
    LET out_len == Len(signature_tree)
    IN  IF result = PyNone THEN Ok(<<>>)
        ELSE IF out_len = 0 THEN Raise("SignatureBodyMismatchError")
        ELSE IF result.tag = "list" THEN Ok(result.items)
        ELSE IF out_len = 1 THEN Ok(<<result>>)
        ELSE Raise("SignatureBodyMismatchError")

\* _fn_result_to_body treating an empty list like None
_fn_result_to_body_emptyOk(result, signature_tree) ==
    LET out_len == Len(signature_tree)
    IN  IF result = PyNone \/ result = PyList(<<>>) THEN Ok(<<>>)
        ELSE IF out_len = 0 THEN Raise("SignatureBodyMismatchError")
        ELSE IF out_len = 1 THEN Ok(<<result>>)
        ELSE IF result.tag # "list" THEN Raise("SignatureBodyMismatchError")
        ELSE Ok(result.items)

\* lines 433-447
_fn_result_to_body(result, signature_tree) ==
    LET out_len == Len(signature_tree)
    IN  IF result = PyNone THEN Ok(<<>>)
        ELSE IF out_len = 0 THEN Raise("SignatureBodyMismatchError")
        ELSE IF out_len = 1 THEN Ok(<<result>>)
        ELSE IF result.tag # "list" THEN Raise("SignatureBodyMismatchError")
        ELSE Ok(result.items)

\* one call bus._interface_signal_notify(interface, interface_name, member,
\* signature, body)
Notification(bus, interface, interface_name, member, signature, body) ==
    [bus |-> bus, interface |-> interface, interface_name |-> interface_name,
     member |-> member, signature |-> signature, body |-> body]

\* The set of buses is a hash table: slot i holds a bus or 0 (free).  The
\* slot of a bus depends on its hash (its address), so any free slot may
\* take it.  The table never resizes at these sizes.
TableSize == NumBuses + 1
Buses == 1..NumBuses
EmptyTable == [i \in 1..TableSize |-> 0]
BusSet(table) == Range(table) \ {0}

\* iteration of the set: the buses slot by slot
IterOrder(table) == SelectSeq(table, LAMBDA b : b # 0)

\* NotifyAll with the first bus of the iteration left out
NotifyAll_skipFirst(table, interface, interface_name, member, signature, body) ==
    [i \in 1..(Len(IterOrder(table)) - 1) |->
        Notification(IterOrder(table)[i + 1], interface, interface_name,
                     member, signature, body)]

\* NotifyAll walking the table from its last slot to its first
NotifyAll_reversed(table, interface, interface_name, member, signature, body) ==
    [i \in 1..Len(IterOrder(table)) |->
        Notification(IterOrder(table)[Len(IterOrder(table)) + 1 - i], interface,
                     interface_name, member, signature, body)]

\* the loop of lines 452-454 and of lines 379-381, run to its end with
\* nothing else touching the set
NotifyAll(table, interface, interface_name, member, signature, body) ==
    [i \in 1..Len(IterOrder(table)) |->
        Notification(IterOrder(table)[i], interface, interface_name,
                     member, signature, body)]

RECURSIVE BuildVariantDict_skipDisabled(_, _, _, _)
\* BuildVariantDict leaving the disabled properties out
BuildVariantDict_skipDisabled(objs, props, changed_properties, d) ==
    IF props = <<>> THEN d
    ELSE LET prop == objs[Head(props)]
         IN  BuildVariantDict_skipDisabled(objs, Tail(props), changed_properties,
                 IF prop.name \in DOMAIN changed_properties /\ ~prop.disabled
                 THEN SetAttrs(d, [k \in {prop.name} |->
                                      Variant(prop.signature,
                                              changed_properties[prop.name])])
                 ELSE d)

RECURSIVE BuildVariantDict(_, _, _, _)
\* lines 372-376 from the i-th property on; d is variant_dict so far
BuildVariantDict(objs, props, changed_properties, d) ==
    IF props = <<>> THEN d
    ELSE LET prop == objs[Head(props)]
         IN  BuildVariantDict(objs, Tail(props), changed_properties,
                 IF prop.name \in DOMAIN changed_properties
                 THEN SetAttrs(d, [k \in {prop.name} |->
                                      Variant(prop.signature,
                                              changed_properties[prop.name])])
                 ELSE d)

PropertiesInterface == "org.freedesktop.DBus.Properties"
PropertiesChanged == "PropertiesChanged"
\* 'sa{sv}as'
PropertiesChangedSignature == <<"s", "a", "{", "s", "v", "}", "a", "s">>

EmptyDict == [k \in {} |-> 0]

(***************************************************************************)
(* State                                                                   *)
(***************************************************************************)
VARIABLES
    members,          \* the class namespace: attribute -> member
    heap,             \* the descriptor objects the class body created
    phase,            \* "class", "classerror", "live", "failed"
    self_id,          \* identity of the current instance (0: none yet)
    self_name,        \* self.name
    self_methods,     \* self.__methods
    self_properties,  \* self.__properties
    self_signals,     \* self.__signals
    self_buses,       \* self.__buses
    inflight,         \* the dispatch loop that is between two notify calls
    attachOrder,      \* history: the attached buses in the order of attachment
    last              \* history: the last operation and what it did

vars == <<members, heap, phase, self_id, self_name, self_methods,
          self_properties, self_signals, self_buses, inflight, attachOrder, last>>
classVars == <<members, heap>>
selfVars == <<self_id, self_name, self_methods, self_properties, self_signals>>

\* instances constructed in one run
MaxInstances == 2

InterfaceName == "test.interface"

\* intr.Interface(name, methods, signals, properties)
Interface(nm, methods, signals, properties) ==
    [name |-> nm, methods |-> methods, signals |-> signals, properties |-> properties]
NoInterface == Interface("", <<>>, <<>>, <<>>)

NoOp == [op |-> "none", attr |-> 0, result |-> PyNone, changed |-> EmptyDict,
         invalidated |-> <<>>, fnCalled |-> FALSE, outcome |-> "",
         errName |-> "", bus |-> 0, busesAtCall |-> {}, sent |-> <<>>,
         view |-> NoInterface, fn |-> NoFn, built |-> Raise("")]
Idle == [active |-> FALSE, si_pos |-> 0, si_used |-> 0,
         call |-> Notification(0, 0, "", "", <<>>, <<>>)]

ClassState == [members |-> members, heap |-> heap]

InitOf(c) ==
    /\ members = c.members
    /\ heap = c.heap
    /\ phase = "class"
    /\ self_id = 0
    /\ self_name = ""
    /\ self_methods = <<>>
    /\ self_properties = <<>>
    /\ self_signals = <<>>
    /\ self_buses = EmptyTable
    /\ inflight = Idle
    /\ attachOrder = <<>>
    /\ last = NoOp

\* the state after the class c was defined and one instance constructed
InitLive(c) ==
    LET r == ServiceInterface__init__(c)
    IN  /\ r.ok
        /\ members = c.members
        /\ heap = r.heap
        /\ phase = "live"
        /\ self_id = 1
        /\ self_name = InterfaceName
        /\ self_methods = r.methods
        /\ self_properties = r.properties
        /\ self_signals = r.signals
        /\ self_buses = EmptyTable
        /\ inflight = Idle
        /\ attachOrder = <<>>
        /\ last = [NoOp EXCEPT !.op = "construct", !.outcome = "ok"]

(***************************************************************************)
(* Class body: one action per decorated def                                *)
(***************************************************************************)
Accessors == {"read", "write", "readwrite"}
NameOptions == {NoName, "Alt"}
\* (parameters, return annotation) of the getters tried
GetterShapes == {<< <<Empty>>, <<"s">> >>,
                 << <<Empty, <<"s">> >>, <<"s">> >>, << <<Empty>>, Empty >>,
                 << <<Empty>>, <<"s", "u">> >>, << <<Empty>>, <<"a">> >>}
MethodShapes == {<< <<Empty>>, Empty >>, << <<Empty, <<"s">> >>, <<"s">> >>,
                 << <<Empty, <<"s">>, <<"a", "u">> >>, <<"s", "u">> >>,
                 << <<Empty, Empty>>, Empty >>}
SignalAnnotations == {Empty, <<"s">>, <<"s", "s">>, <<"a">>}
\* the (name, disabled) arguments tried on @method and @signal
MemberOptions == {<<NoName, FALSE>>, <<NoName, TRUE>>, <<"Alt", FALSE>>}

Declared(c) ==
    /\ members' = c.members
    /\ heap' = c.heap
    /\ phase' = IF c.ok THEN "class" ELSE "classerror"
    /\ last' = [NoOp EXCEPT !.op = "declare",
                             !.outcome = IF c.ok THEN "ok" ELSE c.err]
    /\ UNCHANGED <<selfVars, self_buses, inflight, attachOrder>>

DeclareProperty ==
    /\ phase = "class"
    /\ \E a \in UserAttrs, shape \in GetterShapes, access \in Accessors,
          nm \in NameOptions, disabled \in BOOLEAN :
          /\ members[a] = NoMember
          /\ Declared(DeclProperty(ClassState, a, shape[1], shape[2], access, nm, disabled))

\* the setter is written under the getter's name or under a fresh one
DeclareSetter ==
    /\ phase = "class"
    /\ \E src \in UserAttrs, a \in UserAttrs :
          /\ members[src] = [kind |-> "prop", oid |-> <<src, "get">>]
          /\ a = src \/ members[a] = NoMember
          /\ Declared(DeclSetter(ClassState, src, a))

DeclareMethod ==
    /\ phase = "class"
    /\ \E a \in UserAttrs, shape \in MethodShapes, opt \in MemberOptions :
          /\ members[a] = NoMember
          /\ Declared(DeclMethod(ClassState, a, shape[1], shape[2], opt[1], opt[2]))

DeclareSignal ==
    /\ phase = "class"
    /\ \E a \in UserAttrs, ret \in SignalAnnotations, opt \in MemberOptions :
          /\ members[a] = NoMember
          /\ Declared(DeclSignal(ClassState, a, ret, opt[1], opt[2]))

\* an attribute that carries no marker
DeclareOther ==
    /\ phase = "class"
    /\ \E a \in UserAttrs :
          /\ members[a] = NoMember
          /\ Declared([ok |-> TRUE, err |-> "",
                       members |-> [members EXCEPT ![a] = OtherMember],
                       heap |-> heap])

(***************************************************************************)
(* A method descriptor built on its own                                    *)
(***************************************************************************)
\* parameters after the receiver
MaxParams == 2
\* what a parameter is annotated with: a single complete type, or nothing
ParamAnnotations == {Empty, <<"s">>, <<"u">>, <<"a", "s">>}
ParamLists == UNION {[1..n -> ParamAnnotations] : n \in 0..MaxParams}
ReturnAnnotations == {Empty, <<"s">>, <<"s", "u">>, <<"a", "s", "u">>}

\* @method(name, disabled) applied to def bar(self, ...) -> ...
BuildMethod ==
    /\ phase = "class"
    /\ \E params \in ParamLists, ret \in ReturnAnnotations, opt \in MemberOptions :
          LET fn == Fn(FnId(1, "fn"), AttrNames[1], <<Empty>> \o params, ret)
          IN  last' = [NoOp EXCEPT !.op = "method", !.fn = fn,
                                   !.built = method(opt[1], opt[2], fn)]
    /\ UNCHANGED <<classVars, phase, selfVars, self_buses, inflight, attachOrder>>

(***************************************************************************)
(* Construction                                                            *)
(***************************************************************************)
Construct ==
    /\ phase \in {"class", "live", "failed"}
    /\ ~inflight.active
    /\ self_id < MaxInstances
    /\ LET r == ServiceInterface__init__(ClassState)
       IN  /\ heap' = r.heap
           /\ phase' = IF r.ok THEN "live" ELSE "failed"
           /\ self_id' = self_id + 1
           /\ self_name' = IF r.ok THEN InterfaceName ELSE ""
           /\ self_methods' = IF r.ok THEN r.methods ELSE <<>>
           /\ self_properties' = IF r.ok THEN r.properties ELSE <<>>
           /\ self_signals' = IF r.ok THEN r.signals ELSE <<>>
           /\ last' = [NoOp EXCEPT !.op = "construct",
                                   !.outcome = IF r.ok THEN "ok" ELSE r.err,
                                   !.errName = r.errName]
    /\ self_buses' = EmptyTable
    /\ attachOrder' = <<>>
    /\ UNCHANGED <<members, inflight>>

(***************************************************************************)
(* Attaching and detaching buses                                           *)
(***************************************************************************)
\* while a dispatch loop is in flight the record of that dispatch is kept
Record(entry) == last' = IF inflight.active THEN last ELSE entry

\* _add_bus on a list: the bus is appended whether or not it is there
_add_bus_append ==
    /\ phase = "live"
    /\ \E bus \in Buses :
          /\ \E i \in 1..TableSize :
                /\ self_buses[i] = 0
                /\ self_buses' = [self_buses EXCEPT ![i] = bus]
          /\ attachOrder' = Append(attachOrder, bus)
          /\ Record([NoOp EXCEPT !.op = "attach", !.bus = bus, !.outcome = "ok",
                                 !.busesAtCall = BusSet(self_buses)])
    /\ UNCHANGED <<classVars, phase, selfVars, inflight>>

\* lines 409-411: set.add
_add_bus ==
    /\ phase = "live"
    /\ \E bus \in Buses :
          /\ IF bus \in BusSet(self_buses)
             THEN UNCHANGED <<self_buses, attachOrder>>
             ELSE /\ \E i \in 1..TableSize :
                        /\ self_buses[i] = 0
                        /\ self_buses' = [self_buses EXCEPT ![i] = bus]
                  /\ attachOrder' = Append(attachOrder, bus)
          /\ Record([NoOp EXCEPT !.op = "attach", !.bus = bus, !.outcome = "ok",
                                 !.busesAtCall = BusSet(self_buses)])
    /\ UNCHANGED <<classVars, phase, selfVars, inflight>>

\* lines 413-415: set.remove
_remove_bus ==
    /\ phase = "live"
    /\ \E bus \in Buses :
          /\ IF bus \in BusSet(self_buses)
             THEN /\ self_buses' = [i \in 1..TableSize |->
                                       IF self_buses[i] = bus THEN 0 ELSE self_buses[i]]
                  /\ attachOrder' = SelectSeq(attachOrder, LAMBDA b : b # bus)
             ELSE UNCHANGED <<self_buses, attachOrder>>
          /\ Record([NoOp EXCEPT !.op = "detach", !.bus = bus,
                                 !.outcome = IF bus \in BusSet(self_buses)
                                             THEN "ok" ELSE "KeyError",
                                 !.busesAtCall = BusSet(self_buses)])
    /\ UNCHANGED <<classVars, phase, selfVars, inflight>>

(***************************************************************************)
(* Introspection                                                           *)
(***************************************************************************)
\* [x.introspection for x in collection if not x.disabled]
Introspections(h, collection) ==
    LET shown == SelectSeq(collection, LAMBDA o : ~h[o].disabled)
    IN  [i \in 1..Len(shown) |-> h[shown[i]].introspection]

\* introspect listing the disabled members as well
introspect_all(h, nm, methods, signals, properties) ==
    Interface(nm,
              [i \in 1..Len(methods) |-> h[methods[i]].introspection],
              [i \in 1..Len(signals) |-> h[signals[i]].introspection],
              [i \in 1..Len(properties) |-> h[properties[i]].introspection])

\* lines 383-407
introspect(h, nm, methods, signals, properties) ==
    Interface(nm,
              Introspections(h, methods),
              Introspections(h, signals),
              Introspections(h, properties))

\* Introspect filtering the collections of the interface themselves
Introspect_prune ==
    /\ phase = "live"
    /\ ~inflight.active
    /\ last' = [NoOp EXCEPT !.op = "introspect",
                            !.view = introspect(heap, self_name, self_methods,
                                                self_signals, self_properties)]
    /\ self_methods' = SelectSeq(self_methods, LAMBDA o : ~heap[o].disabled)
    /\ self_signals' = SelectSeq(self_signals, LAMBDA o : ~heap[o].disabled)
    /\ self_properties' = SelectSeq(self_properties, LAMBDA o : ~heap[o].disabled)
    /\ UNCHANGED <<classVars, phase, self_id, self_name, self_buses, inflight, attachOrder>>

Introspect ==
    /\ phase = "live"
    /\ ~inflight.active
    /\ last' = [NoOp EXCEPT !.op = "introspect",
                            !.view = introspect(heap, self_name, self_methods,
                                                self_signals, self_properties)]
    /\ UNCHANGED <<classVars, phase, selfVars, self_buses, inflight, attachOrder>>

(***************************************************************************)
(* Dispatch, each call run to its end                                      *)
(***************************************************************************)
\* _handle_signal notifying before it looks at the conversion's outcome
_handle_signal_notifyFirst(table, interface, interface_name, sig, result) ==
    LET body == _fn_result_to_body(result, sig.signature_tree)
    IN  [outcome |-> IF body.ok THEN "ok" ELSE body.err,
         sent |-> NotifyAll(table, interface, interface_name, sig.name, sig.signature,
                            IF body.ok THEN body.v ELSE <<>>)]

\* lines 449-454
_handle_signal(table, interface, interface_name, sig, result) ==
    LET body == _fn_result_to_body(result, sig.signature_tree)
    IN  IF ~body.ok
        THEN [outcome |-> body.err, sent |-> <<>>]
        ELSE [outcome |-> "ok",
              sent |-> NotifyAll(table, interface, interface_name,
                                 sig.name, sig.signature, body.v)]

\* wrapped without the test of signal.disabled
wrapped_noDisabledTest(table, interface, interface_name, sig, result) ==
    LET h == _handle_signal(table, interface, interface_name, sig, result)
    IN  [outcome |-> h.outcome, fnCalled |-> TRUE, sent |-> h.sent]

\* lines 171-177; result is what the trigger function returns when called
wrapped(table, interface, interface_name, sig, result) ==
    IF sig.disabled
    THEN [outcome |-> "SignalDisabledError", fnCalled |-> FALSE, sent |-> <<>>]
    ELSE LET h == _handle_signal(table, interface, interface_name, sig, result)
         IN  [outcome |-> h.outcome, fnCalled |-> TRUE, sent |-> h.sent]

\* lines 358-381
emit_properties_changed(table, interface, interface_name, objs, props, changed_properties, invalidated_properties) ==
    NotifyAll(table, interface, PropertiesInterface, PropertiesChanged,
              PropertiesChangedSignature,
              <<interface_name,
                BuildVariantDict(objs, props, changed_properties, EmptyDict),
                invalidated_properties>>)

\* what a trigger function may return
Strs == {"a", "b"}
\* the list of the given length: "a", "b", "a", ...
ListOfLen(n) == [i \in 1..n |-> PyStr(IF i % 2 = 1 THEN "a" ELSE "b")]
Results == {PyNone} \cup {PyStr(x) : x \in Strs} \cup {PyList(ListOfLen(n)) : n \in 0..MaxListLen}

\* arguments of emit_properties_changed
KeyNames == {"foo", "Alt", "nope"}
ValueChoices == {[k \in KeyNames |-> PyStr(IF k = "Alt" THEN "b" ELSE "a")],
                 [k \in KeyNames |-> PyStr(IF k = "Alt" THEN "a" ELSE "b")]}
ChangedDicts == {[k \in K |-> v[k]] : K \in SUBSET KeyNames, v \in ValueChoices}
InvalidatedLists == {<<>>, <<"foo", "nope">>}

\* a signal call whose loop takes each bus out of the set as it notifies it
SignalCall_draining ==
    /\ phase = "live"
    /\ ~inflight.active
    /\ \E a \in 1..NAttr, result \in Results :
          /\ members[a].kind = "signal"
          /\ LET w == wrapped(self_buses, self_id, self_name,
                              heap[members[a].oid], result)
             IN  /\ last' = [NoOp EXCEPT !.op = "signal", !.attr = a, !.result = result,
                                         !.fnCalled = w.fnCalled, !.outcome = w.outcome,
                                         !.busesAtCall = BusSet(self_buses),
                                         !.sent = w.sent]
                 /\ self_buses' = IF w.sent = <<>> THEN self_buses ELSE EmptyTable
    /\ UNCHANGED <<classVars, phase, selfVars, inflight, attachOrder>>

SignalCall ==
    /\ phase = "live"
    /\ ~inflight.active
    /\ \E a \in 1..NAttr, result \in Results :
          /\ members[a].kind = "signal"
          /\ LET w == wrapped(self_buses, self_id, self_name,
                              heap[members[a].oid], result)
             IN  last' = [NoOp EXCEPT !.op = "signal", !.attr = a, !.result = result,
                                      !.fnCalled = w.fnCalled, !.outcome = w.outcome,
                                      !.busesAtCall = BusSet(self_buses),
                                      !.sent = w.sent]
    /\ UNCHANGED <<classVars, phase, selfVars, self_buses, inflight, attachOrder>>

EmitPropertiesChanged ==
    /\ phase = "live"
    /\ ~inflight.active
    /\ \E changed \in ChangedDicts, invalidated \in InvalidatedLists :
          last' = [NoOp EXCEPT !.op = "emit", !.changed = changed,
                               !.invalidated = invalidated, !.outcome = "ok",
                               !.busesAtCall = BusSet(self_buses),
                               !.sent = emit_properties_changed(self_buses, self_id,
                                            self_name, heap, self_properties,
                                            changed, invalidated)]
    /\ UNCHANGED <<classVars, phase, selfVars, self_buses, inflight, attachOrder>>

(***************************************************************************)
(* Dispatch, one notify call at a time: between two steps of the loop the  *)
(* bus being notified, or another thread, may attach and detach buses.     *)
(* The for loop iterates self.__buses itself (lines 379, 452, 419), and a  *)
(* set iterator raises RuntimeError when the set's size is not the one it  *)
(* started with.                                                           *)
(***************************************************************************)
ConcResults == {PyStr("a")}
ConcChanged == {[k \in {"foo"} |-> PyStr("a")]}

\* iter(self.__buses) with the call each bus is to receive
StartLoop(table, call) ==
    [active |-> TRUE, si_pos |-> 0, si_used |-> Cardinality(BusSet(table)),
     call |-> call]

\* lines 171-176 and 451 up to the start of the loop of line 452
SignalBegin ==
    /\ phase = "live"
    /\ ~inflight.active
    /\ \E a \in 1..NAttr, result \in ConcResults :
          /\ members[a].kind = "signal"
          /\ LET sig == heap[members[a].oid]
                 body == _fn_result_to_body(result, sig.signature_tree)
                 entry == [NoOp EXCEPT !.op = "signal", !.attr = a, !.result = result,
                                       !.busesAtCall = BusSet(self_buses)]
             IN  IF sig.disabled
                 THEN /\ last' = [entry EXCEPT !.outcome = "SignalDisabledError"]
                      /\ UNCHANGED inflight
                 ELSE IF ~body.ok
                 THEN /\ last' = [entry EXCEPT !.fnCalled = TRUE, !.outcome = body.err]
                      /\ UNCHANGED inflight
                 ELSE /\ last' = [entry EXCEPT !.fnCalled = TRUE, !.outcome = "running"]
                      /\ inflight' = StartLoop(self_buses,
                                         Notification(0, self_id, self_name, sig.name,
                                                      sig.signature, body.v))
    /\ UNCHANGED <<classVars, phase, selfVars, self_buses, attachOrder>>

\* lines 372-378 up to the start of the loop of line 379
EmitBegin ==
    /\ phase = "live"
    /\ ~inflight.active
    /\ \E changed \in ConcChanged :
          /\ last' = [NoOp EXCEPT !.op = "emit", !.changed = changed,
                                  !.outcome = "running",
                                  !.busesAtCall = BusSet(self_buses)]
          /\ inflight' = StartLoop(self_buses,
                             Notification(0, self_id, PropertiesInterface,
                                 PropertiesChanged, PropertiesChangedSignature,
                                 <<self_name,
                                   BuildVariantDict(heap, self_properties, changed, EmptyDict),
                                   <<>> >>))
    /\ UNCHANGED <<classVars, phase, selfVars, self_buses, attachOrder>>

\* one turn of the for loop: next() on the set iterator, then the notify call
NotifyNext ==
    /\ inflight.active
    /\ LET rest == {i \in 1..TableSize : i > inflight.si_pos /\ self_buses[i] # 0}
           i == CHOOSE j \in rest : \A k \in rest : j <= k
       IN  IF inflight.si_used # Cardinality(BusSet(self_buses))
           THEN /\ last' = [last EXCEPT !.outcome = "RuntimeError"]
                /\ inflight' = Idle
           ELSE IF rest = {}
           THEN /\ last' = [last EXCEPT !.outcome = "ok"]
                /\ inflight' = Idle
           ELSE /\ last' = [last EXCEPT !.sent =
                               Append(@, [inflight.call EXCEPT !.bus = self_buses[i]])]
                /\ inflight' = [inflight EXCEPT !.si_pos = i]
    /\ UNCHANGED <<classVars, phase, selfVars, self_buses, attachOrder>>

(***************************************************************************)
(* The classes the dispatch is exercised on                                *)
(***************************************************************************)
\* three signals with 0, 1 and 2 OUT args
ClassA ==
    DeclSignal(DeclSignal(DeclSignal(EmptyClass,
        1, Empty, NoName, FALSE),
        3, <<"s">>, NoName, FALSE),
        5, <<"s", "s">>, NoName, FALSE)
\* a disabled signal and two read-only properties, one renamed and disabled
ClassB ==
    DeclProperty(DeclProperty(DeclSignal(EmptyClass,
        1, <<"s">>, NoName, TRUE),
        3, <<Empty>>, <<"s">>, "read", NoName, FALSE),
        5, <<Empty>>, <<"u">>, "read", "Alt", TRUE)
\* a renamed signal with one array OUT arg, a read-write property with its
\* setter under the same name, and a second property of the same D-Bus name
ClassC ==
    DeclProperty(DeclSetter(DeclProperty(DeclSignal(EmptyClass,
        1, <<"a", "s">>, "Alt", FALSE),
        3, <<Empty>>, <<"s">>, "readwrite", "Alt", FALSE),
        3, 3),
        5, <<Empty>>, <<"u">>, "read", "Alt", FALSE)
\* a disabled method, a signal without OUT args and a disabled property
ClassE ==
    DeclProperty(DeclSignal(DeclMethod(EmptyClass,
        1, <<Empty, <<"s">> >>, <<"s">>, NoName, TRUE),
        3, Empty, NoName, FALSE),
        5, <<Empty>>, <<"s">>, "read", NoName, TRUE)
DispatchClasses == {ClassA, ClassB, ClassC, ClassE}
\* one signal with an OUT arg, one property, one signal without OUT args
ClassD ==
    DeclSignal(DeclProperty(DeclSignal(EmptyClass,
        1, <<"s">>, NoName, FALSE),
        3, <<Empty>>, <<"s">>, "read", NoName, FALSE),
        5, Empty, NoName, FALSE)

(***************************************************************************)
(* Specifications                                                          *)
(***************************************************************************)
\* dispatch on a constructed interface, calls run one after the other
Init == \E c \in DispatchClasses : InitLive(c)
Next ==
    \/ _add_bus
    \/ _remove_bus
    \/ SignalCall
    \/ EmitPropertiesChanged
    \/ Introspect
Spec == Init /\ [][Next]_vars

\* the class body and the construction
InitReg == InitOf(EmptyClass)
NextReg ==
    \/ DeclareProperty
    \/ DeclareSetter
    \/ DeclareMethod
    \/ DeclareSignal
    \/ DeclareOther
    \/ Construct
    \/ Introspect
SpecReg == InitReg /\ [][NextReg]_vars

\* method descriptors built from every parameter list and return annotation
InitMethod == InitOf(EmptyClass)
NextMethod == BuildMethod
SpecMethod == InitMethod /\ [][NextMethod]_vars

\* dispatch with the buses attached and detached while a loop is in flight
InitConc == InitLive(ClassD)
NextConc ==
    \/ _add_bus
    \/ _remove_bus
    \/ SignalBegin
    \/ EmitBegin
    \/ NotifyNext
SpecConc == InitConc /\ [][NextConc]_vars

(***************************************************************************)
(* Properties                                                              *)
(***************************************************************************)
\* the signal descriptor the last signal call went through
LastSignal == heap[members[last.attr].oid]
\* the buses notified by the last call, in the order of the calls
SentBuses == [i \in 1..Len(last.sent) |-> last.sent[i].bus]
\* the last call was a signal invocation that passed the disabled test
SignalRan == last.op = "signal" /\ ~LastSignal.disabled
\* number of declared OUT args of the last signal
OutLen == Len(LastSignal.introspection.args)

\* C1: a successful invocation of an enabled signal notifies every attached
\* bus exactly once with (interface, interface name, signal name, signature
\* string, converted body), and no other bus.
C1_SignalFanOut ==
    (SignalRan /\ last.outcome = "ok") =>
        /\ Range(SentBuses) = BusSet(self_buses)
        /\ Len(last.sent) = Cardinality(BusSet(self_buses))
        /\ \A i \in 1..Len(last.sent) :
              /\ last.sent[i].interface = self_id
              /\ last.sent[i].interface_name = self_name
              /\ last.sent[i].member = LastSignal.name
              /\ last.sent[i].signature = LastSignal.signature
              /\ last.sent[i].body =
                    _fn_result_to_body(last.result, LastSignal.signature_tree).v

C1_Witness ==
    /\ SignalRan
    /\ last.outcome = "ok"
    /\ last.result = PyList(ListOfLen(2))
    /\ OutLen = 2
    /\ Cardinality(BusSet(self_buses)) = 2
    /\ Len(last.sent) = 2

\* C2: invoking a disabled signal fails with SignalDisabledError, never runs
\* the trigger function and notifies no bus.
C2_DisabledSignal ==
    (last.op = "signal" /\ LastSignal.disabled) =>
        /\ last.outcome = "SignalDisabledError"
        /\ ~last.fnCalled
        /\ last.sent = <<>>

C2_Witness ==
    /\ last.op = "signal"
    /\ LastSignal.disabled
    /\ last.outcome = "SignalDisabledError"
    /\ last.result = PyStr("a")
    /\ Cardinality(BusSet(self_buses)) = 2

\* C3: when the conversion of the return value fails, the caller gets the
\* SignatureBodyMismatchError and no bus was notified; no dispatch ends in
\* that error with a bus notified.
C3_NoPartialFanOut ==
    /\ (SignalRan /\ ~_fn_result_to_body(last.result, LastSignal.signature_tree).ok) =>
           last.outcome = "SignatureBodyMismatchError"
    /\ last.outcome = "SignatureBodyMismatchError" => last.sent = <<>>

C3_Witness ==
    /\ SignalRan
    /\ last.outcome = "SignatureBodyMismatchError"
    /\ last.fnCalled
    /\ Cardinality(BusSet(self_buses)) = 2

\* C4: a dispatch whose set of buses is changed while it is in flight does
\* not crash and still notifies every bus attached when it began.
C4_SnapshotDispatch ==
    (last.op \in {"signal", "emit"} /\ ~inflight.active) =>
        /\ last.outcome # "RuntimeError"
        /\ last.outcome = "ok" => last.busesAtCall \subseteq Range(SentBuses)

SlotOf(bus) == CHOOSE i \in 1..TableSize : self_buses[i] = bus

SameGetter(o) ==
    {q \in OIDs : /\ \E a \in 1..NAttr : members[a] = [kind |-> "prop", oid |-> q]
                  /\ heap[q].prop_getter.id = heap[o].prop_getter.id}
\* the class declares a write-permitting property none of whose
\* declarations carries a setter
WritableWithoutSetter ==
    \E a \in 1..NAttr :
        /\ members[a].kind = "prop"
        /\ writable(heap[members[a].oid].access)
        /\ \A q \in SameGetter(members[a].oid) : heap[q].prop_setter.id = None

\* C6: construction fails exactly when a property with access READWRITE or
\* WRITE has no setter after merging, and then no interface results.
C6_WritableNeedsSetter ==
    last.op = "construct" =>
        /\ last.outcome # "ok" <=> WritableWithoutSetter
        /\ last.outcome # "ok" =>
              /\ phase = "failed"
              /\ self_name = "" /\ self_properties = <<>>
              /\ self_methods = <<>> /\ self_signals = <<>>
        /\ last.outcome = "ok" =>
              /\ phase = "live"
              /\ \A j \in 1..Len(self_properties) :
                    writable(heap[self_properties[j]].access) =>
                        heap[self_properties[j]].prop_setter.id # None

C6_Witness ==
    /\ last.op = "construct"
    /\ last.outcome # "ok"
    /\ phase = "failed"
    /\ \E a, b \in UserAttrs :
          /\ a # b
          /\ members[a].kind = "prop" /\ members[b].kind = "prop"
          /\ heap[members[a].oid].access = "write"
          /\ heap[members[a].oid].prop_setter.id = None
          /\ heap[members[b].oid].prop_setter.id # None

\* the attributes under which a setter was declared for the getter of a
SettersOf(a) ==
    {t \in UserAttrs : /\ heap[<<t, "set">>] # NoObj
                       /\ heap[<<t, "set">>].prop_getter.id = FnId(a, "get")}
\* the positions of self.__properties that hold a property with a's getter
CollectedFor(a) ==
    {j \in 1..Len(self_properties) :
        heap[self_properties[j]].prop_getter.id = FnId(a, "get")}

\* C7: a getter declared with options and then given a setter, under the
\* same or another name, is exactly one entry of self.__properties, with
\* getter, setter and the name, access and disabled first configured.
C7_MergedProperty ==
    (last.op = "construct" /\ phase = "live") =>
        \A a \in UserAttrs :
            (heap[<<a, "get">>] # NoObj /\ SettersOf(a) # {}) =>
                /\ Cardinality(CollectedFor(a)) = 1
                /\ \A j \in CollectedFor(a) :
                      LET p == heap[self_properties[j]]
                          configured == heap[<<a, "get">>].options
                      IN  /\ p.prop_getter.id = FnId(a, "get")
                          /\ p.prop_setter.id \in {FnId(t, "set") : t \in SettersOf(a)}
                          /\ p.name = IF configured["name"] # NoName
                                      THEN configured["name"] ELSE AttrNames[a]
                          /\ p.access = configured["access"]
                          /\ p.disabled = configured["disabled"]
                          /\ p.introspection.name = p.name
                          /\ p.introspection.access = p.access

\* a setter under another name that sorts before the getter's, with none of
\* the options at its default
C7_Witness ==
    /\ last.op = "construct"
    /\ phase = "live"
    /\ heap[<<3, "get">>] # NoObj
    /\ SettersOf(3) = {1}
    /\ members[3] = [kind |-> "prop", oid |-> <<3, "get">>]
    /\ self_properties = << <<1, "set">> >>
    /\ heap[<<1, "set">>].name = "Alt"
    /\ heap[<<1, "set">>].access = "write"
    /\ heap[<<1, "set">>].disabled

\* the names of the properties of the interface
PropertyNames == {heap[self_properties[j]].name : j \in 1..Len(self_properties)}

\* C8: emit_properties_changed notifies every attached bus exactly once on
\* org.freedesktop.DBus.Properties.PropertiesChanged with body (interface
\* name, the changed entries whose key names a property, each tagged with
\* that property's type, the invalidated list as given).
C8_PropertiesChanged ==
    last.op = "emit" =>
        /\ last.outcome = "ok"
        /\ Range(SentBuses) = BusSet(self_buses)
        /\ Len(last.sent) = Cardinality(BusSet(self_buses))
        /\ \A i \in 1..Len(last.sent) :
              LET n == last.sent[i]
              IN  /\ n.interface = self_id
                  /\ n.interface_name = "org.freedesktop.DBus.Properties"
                  /\ n.member = "PropertiesChanged"
                  /\ n.signature = <<"s", "a", "{", "s", "v", "}", "a", "s">>
                  /\ Len(n.body) = 3
                  /\ n.body[1] = self_name
                  /\ n.body[3] = last.invalidated
                  /\ DOMAIN n.body[2] = DOMAIN last.changed \cap PropertyNames
                  /\ \A k \in DOMAIN n.body[2] :
                        /\ n.body[2][k].value = last.changed[k]
                        /\ \E j \in 1..Len(self_properties) :
                              /\ heap[self_properties[j]].name = k
                              /\ heap[self_properties[j]].type = n.body[2][k].signature

C8_Witness ==
    /\ last.op = "emit"
    /\ DOMAIN last.changed = {"foo", "Alt", "nope"}
    /\ last.invalidated = <<"foo", "nope">>
    /\ Len(last.sent) = 2
    /\ DOMAIN last.sent[1].body[2] = {"foo", "Alt"}

\* C9: a return value with too many or too few values for the n declared OUT
\* args (for n > 1, a list whose length is not n) ends the dispatch in a
\* SignatureBodyMismatchError with no bus notified.
C9_ArityMismatch ==
    (/\ SignalRan
     /\ \/ OutLen = 0 /\ last.result # PyNone
        \/ OutLen > 1 /\ last.result.tag = "list" /\ Len(last.result.items) # OutLen) =>
        /\ last.outcome = "SignatureBodyMismatchError"
        /\ last.sent = <<>>

\* C10: a trigger function that returns nothing for a signal with at least
\* one OUT arg makes the dispatch fail with a SignatureBodyMismatchError and
\* no bus is notified.
C10_NoneForOutArgs ==
    (SignalRan /\ OutLen > 0 /\ last.result = PyNone) =>
        /\ last.outcome = "SignatureBodyMismatchError"
        /\ last.sent = <<>>

\* every attached bus was notified once, each time with this body
AllNotifiedWith(body) ==
    /\ last.outcome = "ok"
    /\ Range(SentBuses) = BusSet(self_buses)
    /\ Len(last.sent) = Cardinality(BusSet(self_buses))
    /\ \A i \in 1..Len(last.sent) : last.sent[i].body = body
\* the dispatch failed on the conversion and notified nobody
MismatchNoneNotified ==
    /\ last.outcome = "SignatureBodyMismatchError"
    /\ last.sent = <<>>

\* C11: with more than one OUT arg a returned list is the body verbatim and
\* a returned value that is not a list fails with SignatureBodyMismatchError
\* and nothing sent; with one OUT arg the body is the one-element list
\* holding the returned value as it is, list or not.
C11_BodyShape ==
    (SignalRan /\ last.result # PyNone) =>
        /\ (OutLen > 1 /\ last.result.tag = "list") => AllNotifiedWith(last.result.items)
        /\ (OutLen > 1 /\ last.result.tag # "list") => MismatchNoneNotified
        /\ OutLen = 1 => AllNotifiedWith(<<last.result>>)

\* one OUT arg and a list returned: the list is the single body element
C11_Witness ==
    /\ SignalRan
    /\ OutLen = 1
    /\ last.result = PyList(ListOfLen(2))
    /\ Len(last.sent) = 2
    /\ last.sent[1].body = <<PyList(ListOfLen(2))>>

\* C12 as claimed: without OUT args an absent or empty return value notifies
\* every bus with the empty body, a non-empty one fails.
C12_EmptyAccepted ==
    (SignalRan /\ OutLen = 0) =>
        IF last.result = PyNone \/ last.result = PyList(<<>>)
        THEN AllNotifiedWith(<<>>)
        ELSE MismatchNoneNotified

\* C12 amended: without OUT args only None notifies every bus with the empty
\* body; any returned value, the empty list included, fails with
\* SignatureBodyMismatchError and nothing sent.
C12_OnlyNoneAccepted ==
    (SignalRan /\ OutLen = 0) =>
        IF last.result = PyNone
        THEN AllNotifiedWith(<<>>)
        ELSE MismatchNoneNotified

C12_Witness ==
    /\ SignalRan
    /\ OutLen = 0
    /\ last.result = PyList(<<>>)
    /\ last.outcome = "SignatureBodyMismatchError"
    /\ Cardinality(BusSet(self_buses)) = 2

\* view holds the introspection of exactly the entries of collection that
\* are not disabled, in the order they have in collection
EnabledInOrder(view, collection) ==
    LET enabled == {i \in 1..Len(collection) : ~heap[collection[i]].disabled}
    IN  \E f \in [1..Len(view) -> 1..Len(collection)] :
            /\ \A j, k \in 1..Len(view) : j < k => f[j] < f[k]
            /\ {f[k] : k \in 1..Len(view)} = enabled
            /\ \A k \in 1..Len(view) : view[k] = heap[collection[f[k]]].introspection
\* the descriptors the class binds as members of this kind
MembersOfKind(kind) == {members[a].oid : a \in {b \in 1..NAttr : members[b].kind = kind}}

\* C13: introspect() gives the interface's name with the introspection of
\* exactly the methods, signals and properties that are not disabled, each list
\* in the order of its collection; the disabled members stay in the
\* collections.
C13_IntrospectView ==
    last.op = "introspect" =>
        /\ last.view.name = self_name
        /\ EnabledInOrder(last.view.methods, self_methods)
        /\ EnabledInOrder(last.view.signals, self_signals)
        /\ EnabledInOrder(last.view.properties, self_properties)
        /\ Range(self_methods) = MembersOfKind("method")
        /\ Range(self_signals) = MembersOfKind("signal")
        /\ \A o \in MembersOfKind("prop") :
               \E j \in 1..Len(self_properties) :
                   heap[self_properties[j]].prop_getter.id = heap[o].prop_getter.id

\* two methods, the first disabled: only the second is in the view
C13_Witness ==
    /\ last.op = "introspect"
    /\ Len(self_methods) = 2
    /\ heap[self_methods[1]].disabled
    /\ last.view.methods = <<heap[self_methods[2]].introspection>>
    /\ Len(self_properties) = 1
    /\ last.view.properties = <<>>

\* the property descriptors that exist, bound to a name or not
PropertyObjects == {o \in OIDs : heap[o].cls = "prop"}

\* C14 as claimed: the setter is put on the descriptor the getter made, so
\* that no getter has two descriptors.
C14_SameDescriptor ==
    \A o, q \in PropertyObjects :
        heap[o].prop_getter.id = heap[q].prop_getter.id => o = q

\* C14 amended: before any construction, a descriptor with a setter is an
\* object other than the one its getter made; it has that getter, and the
\* name, access, disabled and options of the getter's descriptor, which still
\* exists without a setter.
C14_NewDescriptor ==
    self_id = 0 =>
        \A o \in PropertyObjects :
            heap[o].prop_setter.id # None =>
                LET original == heap[o].prop_getter.id
                IN  /\ o # original
                    /\ original \in PropertyObjects
                    /\ heap[original].prop_setter.id = None
                    /\ heap[o].prop_getter = heap[original].prop_getter
                    /\ heap[o].prop_setter.id = FnId(o[1], "set")
                    /\ heap[o].options = heap[original].options
                    /\ heap[o].name = heap[original].name
                    /\ heap[o].access = heap[original].access
                    /\ heap[o].disabled = heap[original].disabled

\* a renamed, disabled getter foo and its setter written under the name bar:
\* the class has both descriptors
C14_Witness ==
    /\ self_id = 0
    /\ members[3] = [kind |-> "prop", oid |-> <<3, "get">>]
    /\ members[1] = [kind |-> "prop", oid |-> <<1, "set">>]
    /\ heap[<<1, "set">>].prop_getter.id = FnId(3, "get")
    /\ heap[<<1, "set">>].name = "Alt"
    /\ heap[<<1, "set">>].disabled
    /\ heap[<<3, "get">>].prop_setter.id = None

\* the D-Bus names of the properties that permit writing and have no setter
OffendingNames ==
    {heap[members[a].oid].name :
        a \in {b \in 1..NAttr :
                  /\ members[b].kind = "prop"
                  /\ writable(heap[members[b].oid].access)
                  /\ \A q \in SameGetter(members[b].oid) : heap[q].prop_setter.id = None}}

\* C15: a construction that fails raises ValueError 'property "<name>" is
\* writable but does not have a setter' where <name> is the name of a
\* property that permits writing and has no setter.
C15_ErrorNamesOffender ==
    (last.op = "construct" /\ last.outcome # "ok") =>
        /\ last.outcome = "ValueError"
        /\ last.errName \in OffendingNames

\* the descriptors held in the three collections of the interface
Collected == Range(self_methods) \cup Range(self_signals) \cup Range(self_properties)

\* C16: no step on a constructed interface (attach, detach, a signal call
\* that succeeds or fails, emit_properties_changed, introspect) changes the
\* methods, signals and properties collections, their order or the
\* descriptors in them.
C16_CollectionsFixed ==
    [][/\ self_methods' = self_methods
       /\ self_signals' = self_signals
       /\ self_properties' = self_properties
       /\ \A o \in Collected : heap'[o] = heap[o]]_vars

\* a failed signal call on an interface with a method, a signal and a property
C16_Witness ==
    /\ last.op = "signal"
    /\ last.outcome = "SignatureBodyMismatchError"
    /\ Len(self_methods) = 1
    /\ Len(self_signals) = 1
    /\ Len(self_properties) = 1
    /\ BusSet(self_buses) # {}

\* C17: the set of buses is empty at construction, and a step that is not
\* an attach or a detach (a signal call whatever its outcome,
\* emit_properties_changed, introspect) leaves it as it is.
C17_BusesFixed ==
    /\ [](last.op = "construct" => self_buses = EmptyTable)
    /\ [][last'.op \notin {"attach", "detach"} => self_buses' = self_buses]_vars

\* a disabled signal was called with two buses attached
C17_Witness ==
    /\ last.op = "signal"
    /\ last.outcome = "SignalDisabledError"
    /\ Cardinality(BusSet(self_buses)) = 2

\* what a construction gave: the three collections in their order, the
\* descriptors in them (getter, setter, name, access, disabled among their
\* fields), or the error it raised
Registration ==
    [phase |-> phase,
     methods |-> self_methods,
     signals |-> self_signals,
     properties |-> self_properties,
     descriptors |-> [o \in Collected |-> heap[o]],
     error |-> IF phase = "failed" THEN <<last.outcome, last.errName>> ELSE <<>>]

\* C18: constructing another instance of the class gives what the
\* construction before it gave: the same methods, signals and properties in
\* the same order, each property with the same getter, setter, name, access
\* and disabled, although the merge writes setters into the descriptors the
\* instances share.
C18_SameRegistration ==
    [][(self_id >= 1 /\ self_id' = self_id + 1) => Registration' = Registration]_vars

\* a second instance, whose one property is the getter's descriptor with the
\* setter merged in from the descriptor of another name
C18_Witness ==
    /\ self_id = 2
    /\ phase = "live"
    /\ last.op = "construct"
    /\ Len(self_properties) = 1
    /\ self_properties[1][2] = "get"
    /\ heap[self_properties[1]].prop_setter.id # None
    /\ heap[self_properties[1]].access = "readwrite"

\* the slots of the set's table that hold this bus
SlotsOf(bus) == {i \in 1..TableSize : self_buses[i] = bus}

\* C19: attaching a bus that is attached leaves the set as it is, with the
\* bus in it once, so that a dispatch notifies it once and one detach takes
\* it out; detaching a bus that is not attached raises KeyError and leaves
\* the set as it is.
C19_AttachDetach ==
    /\ [](/\ \A bus \in Buses : Cardinality(SlotsOf(bus)) <= 1
          /\ last.op \in {"signal", "emit"} =>
                 \A bus \in Buses :
                     Cardinality({i \in 1..Len(last.sent) : last.sent[i].bus = bus}) <= 1)
    /\ [][/\ last'.op = "attach" =>
                /\ last'.outcome = "ok"
                /\ BusSet(self_buses') = BusSet(self_buses) \cup {last'.bus}
                /\ last'.bus \in BusSet(self_buses) => self_buses' = self_buses
          /\ last'.op = "detach" =>
                IF last'.bus \in BusSet(self_buses)
                THEN /\ last'.outcome = "ok"
                     /\ BusSet(self_buses') = BusSet(self_buses) \ {last'.bus}
                ELSE /\ last'.outcome = "KeyError"
                     /\ self_buses' = self_buses]_vars

\* bus 1 was attached while it was attached already
C19_Witness ==
    /\ last.op = "attach"
    /\ last.bus = 1
    /\ 1 \in last.busesAtCall
    /\ Cardinality(SlotsOf(1)) = 1

RECURSIVE LenUpTo(_, _)
\* the length of the first i annotations taken together
LenUpTo(annotations, i) ==
    IF i = 0 THEN 0 ELSE LenUpTo(annotations, i - 1) + Len(annotations[i])
\* sig is the annotations one after the other in their order
IsConcatenation(sig, annotations) ==
    /\ Len(sig) = LenUpTo(annotations, Len(annotations))
    /\ \A i \in 1..Len(annotations) :
           SubSeq(sig, LenUpTo(annotations, i - 1) + 1, LenUpTo(annotations, i))
               = annotations[i]

\* C20: a method descriptor has one IN arg for each parameter after the
\* receiver, the i-th with the i-th annotation as its type, in_signature is
\* these annotations one after the other, and the OUT args are the complete
\* types of the return annotation in order, none without one; with a
\* parameter after the receiver that has no annotation, building raises
\* ValueError.
C20_MethodDescriptor ==
    last.op = "method" =>
        LET nonself == Tail(last.fn.params)
            ret == last.fn.ret
            m == last.built.v
            in_args == m.introspection.in_args
            out_args == m.introspection.out_args
            types == IF ret = Empty THEN <<>> ELSE SignatureTree_types(ret)
        IN  IF \E i \in 1..Len(nonself) : nonself[i] = Empty
            THEN ~last.built.ok /\ last.built.err = "ValueError"
            ELSE /\ last.built.ok
                 /\ Len(in_args) = Len(nonself)
                 /\ \A i \in 1..Len(nonself) :
                        in_args[i].type = nonself[i] /\ in_args[i].direction = "in"
                 /\ IsConcatenation(m.in_signature, nonself)
                 /\ Len(out_args) = Len(types)
                 /\ \A i \in 1..Len(types) :
                        out_args[i].type = types[i] /\ out_args[i].direction = "out"
                 /\ m.out_signature = IF ret = Empty THEN <<>> ELSE ret

\* def bar(self, x: 'as', y: 'u') -> 'asu'
C20_Witness ==
    /\ last.op = "method"
    /\ last.fn.params = <<Empty, <<"a", "s">>, <<"u">> >>
    /\ last.fn.ret = <<"a", "s", "u">>
    /\ last.built.ok
    /\ last.built.v.in_signature = <<"a", "s", "u">>
    /\ Len(last.built.v.introspection.in_args) = 2
    /\ Len(last.built.v.introspection.out_args) = 2
====
